---- MODULE Spec2Model ----
(***************************************************************************)
(* SceneManager of the CS-330 kitchen-island scene: the texture registry   *)
(* (m_textureIDs, m_loadedTextures), the per-draw shader configuration     *)
(* (SetTransformations, SetShaderTexture) and the frame RenderScene draws. *)
(*                                                                         *)
(* Abstractions, all stated where they are made:                           *)
(*  - the image files on disk are the function disk: file -> number of     *)
(*    colour channels stbi_load reports, 0 when stbi_load returns NULL;    *)
(*  - glGenTextures hands out the names 1, 2, 3, ... (glNext);            *)
(*  - a glm::mat4 built by SetTransformations is kept as the ordered list  *)
(*    of its glm factor matrices; MatValue multiplies the list out, which  *)
(*    is exact for integer components and multiples of 90 degrees;         *)
(*  - an access to m_textureIDs[i] with i >= 16 is undefined behaviour:    *)
(*    a store lands outside the array, a load yields an arbitrary tag, and *)
(*    the process may also die (alive = "crashed").                        *)
(***************************************************************************)
EXTENDS Integers, Sequences, FiniteSets, TLC

VARIABLES
    m_pShaderManager,   \* TRUE: a ShaderManager was passed; FALSE: nullptr
    m_loadedTextures,   \* int m_loadedTextures
    m_textureIDs,       \* TEXTURE_INFO m_textureIDs[16]
    disk,               \* what stbi_load finds for each file
    glNext,             \* the next texture name glGenTextures returns
    uniforms,           \* the uniforms held by the ShaderManager
    calls,              \* the calls the last handler made, in order
    ret,                \* what the last handler returned
    wrote,              \* the indexes the last handler stored registry entries at
    oob,                \* the indexes at or past 16 the last handler touched
    op,                 \* the last handler and its arguments
    alive,              \* "alive", "destroyed" or "crashed"
    prepares,           \* LoadSceneTextures runs so far
    creates             \* direct CreateGLTexture calls so far

vars == <<m_pShaderManager, m_loadedTextures, m_textureIDs, disk, glNext,
          uniforms, calls, ret, wrote, oob, op, alive, prepares, creates>>

---------------------------------------------------------------------------
\* Program constants

\* TEXTURE_INFO m_textureIDs[16]
TextureCapacity == 16

\* (uint32_t)-1, the ID of an empty registry entry (bit pattern 0xFFFFFFFF)
NoTextureID == -1

\* the tag of an empty registry entry
NoTag == "/0"

\* the (filename, tag) pairs LoadSceneTextures loads, in order
SceneTextures ==
    << <<"textures/wood.jpg", "wood">>,
       <<"textures/white_wood.jpg", "whiteWood">>,
       <<"textures/concrete.png", "concrete">>,
       <<"textures/green.png", "green">>,
       <<"textures/gray.png", "gray">>,
       <<"textures/black.png", "black">> >>

Files == {SceneTextures[i][1] : i \in 1..Len(SceneTextures)}

SceneTags == {SceneTextures[i][2] : i \in 1..Len(SceneTextures)}

\* stb_image decodes a JPEG to 1 or 3 channels and a PNG to 1, 2, 3 or 4;
\* 0 stands for stbi_load returning NULL (missing or unreadable file)
FileChannels(f) ==
    IF f \in {"textures/wood.jpg", "textures/white_wood.jpg"}
    THEN {0, 1, 3}
    ELSE {0, 1, 2, 3, 4}

---------------------------------------------------------------------------
\* Bounds of the model

\* PrepareScene is called at most this often
MaxPrepare == 3

\* CreateGLTexture is called directly at most this often
MaxCreate == 2

\* at most this many of the six files are missing or of an unsupported format
MaxBadFiles == 2

\* tags looked up: the scene's tags and one that is never loaded
LookupTags == SceneTags \cup {"brick"}

\* tags given to direct CreateGLTexture calls
CreateTags == {"black", "brick"}

\* the arguments given to direct SetTransformations calls
ScaleInputs == {<<1, 1, 1>>, <<2, 3, 5>>}

AngleInputs == {-90, 0, 90}

PositionInputs == {<<0, 0, 0>>, <<7, -11, 13>>}

\* the disks the model starts from
Disks ==
    {d \in [Files -> 0..4] :
        /\ \A f \in Files : d[f] \in FileChannels(f)
        /\ Cardinality({f \in Files : d[f] \notin {3, 4}}) <= MaxBadFiles}

\* the disks the registry helpers are run on: only textures/green.png varies
RegistryDisks ==
    {d \in Disks : \A f \in Files \ {"textures/green.png"} : d[f] = 3}

\* the disks the shader setters are run on: textures/green.png loads or is missing
SetterDisks == {d \in RegistryDisks : d["textures/green.png"] \in {0, 3}}

---------------------------------------------------------------------------
\* The registry and the private texture helpers.  A helper takes the object
\* state s = [shader, n, ids, next, uni, calls, wrote, oob, nullDeref, ret] and returns
\* the state after it: wrote holds the indexes CreateGLTexture stored at,
\* oob the indexes at or past 16 that were touched.

\* one TEXTURE_INFO
TextureInfo(tag, id) == [tag |-> tag, ID |-> id]

\* the registry the constructor leaves
EmptyRegistry == [i \in 0..(TextureCapacity - 1) |-> TextureInfo(NoTag, NoTextureID)]

\* the uniforms before anything is uploaded (GL zero-initialises them)
NoUniforms ==
    [model |-> <<>>, bUseTexture |-> 0, objectTexture |-> 0,
     UVscale |-> <<0, 0>>, bUseLighting |-> FALSE]

Call(fn, arg) == [fn |-> fn, arg |-> arg]

Log(s, fn, arg) == [s EXCEPT !.calls = Append(@, Call(fn, arg))]

\* m_textureIDs[i] = info: inside the array a store, outside it undefined
\* behaviour (the store lands in whatever follows the array)
StoreEntry(s, i, info) ==
    IF i \in 0..(TextureCapacity - 1)
    THEN [s EXCEPT !.ids[i] = info]
    ELSE [s EXCEPT !.oob = @ \cup {i}]

\* CreateGLTexture without the return in the unsupported-channels branch
CreateGLTextureAnyChannels(s, filename, tag, channels) ==
    LET s0 == Log(s, "stbi_load", <<filename>>)
    IN  IF channels = 0
        THEN [s0 EXCEPT !.ret = FALSE]
        ELSE
            LET textureID == s0.next
                s1 == [Log(s0, "glGenTextures", <<textureID>>) EXCEPT !.next = @ + 1]
                s3 == StoreEntry(s1, s1.n, TextureInfo(tag, textureID))
            IN  [s3 EXCEPT !.n = @ + 1, !.ret = TRUE, !.wrote = @ \cup {s1.n}]

CreateGLTexture(s, filename, tag, channels) ==
    LET s0 == Log(s, "stbi_load", <<filename>>)
    IN  IF channels = 0
        THEN [s0 EXCEPT !.ret = FALSE]
        ELSE
            LET textureID == s0.next
                s1 == [Log(s0, "glGenTextures", <<textureID>>) EXCEPT !.next = @ + 1]
            IN  IF channels \notin {3, 4}
                THEN [s1 EXCEPT !.ret = FALSE]
                ELSE
                    LET s2 == Log(s1, "glTexImage2D", <<textureID, channels>>)
                        s3 == StoreEntry(s2, s2.n, TextureInfo(tag, textureID))
                    IN  [s3 EXCEPT !.n = @ + 1, !.ret = TRUE,
                                   !.wrote = @ \cup {s2.n}]

RECURSIVE BindFrom(_, _)
BindFrom(s, i) ==
    IF i >= s.n THEN s
    ELSE IF i \in 0..(TextureCapacity - 1)
         THEN BindFrom(Log(s, "glBindTexture", <<i, s.ids[i].ID>>), i + 1)
         ELSE BindFrom([s EXCEPT !.oob = @ \cup {i}], i + 1)

BindGLTextures(s) == BindFrom(s, 0)

RECURSIVE DestroyFrom(_, _)
DestroyFrom(s, i) ==
    IF i >= s.n THEN [s EXCEPT !.n = 0]
    ELSE IF i \in 0..(TextureCapacity - 1)
         THEN IF s.ids[i].ID # NoTextureID
              THEN DestroyFrom(
                       StoreEntry(Log(s, "glDeleteTextures", <<s.ids[i].ID>>),
                                  i, TextureInfo(NoTag, NoTextureID)),
                       i + 1)
              ELSE DestroyFrom(s, i + 1)
         ELSE DestroyFrom([s EXCEPT !.oob = @ \cup {i}], i + 1)

DestroyGLTextures(s) == DestroyFrom(s, 0)

\* What a lookup that runs past the array finds there: nothing, or the tag
\* past.tag at the index past.at >= 16.
NoPast == [tag |-> NoTag, at |-> -1]

PastReads(n) ==
    {NoPast} \cup
    [tag : LookupTags, at : TextureCapacity..(n - 1)]

RECURSIVE FindFrom(_, _, _, _, _)
FindFrom(ids, n, tag, past, i) ==
    IF i >= n THEN -1
    ELSE IF i \in 0..(TextureCapacity - 1)
         THEN IF ids[i].tag = tag THEN i ELSE FindFrom(ids, n, tag, past, i + 1)
         ELSE IF past.tag = tag /\ past.at = i THEN i
              ELSE FindFrom(ids, n, tag, past, i + 1)

FindTextureSlot(ids, n, tag, past) == FindFrom(ids, n, tag, past, 0)

\* the indexes at or past 16 that FindTextureSlot reads
FindReadsPast(ids, n, tag, past) ==
    LET r == FindTextureSlot(ids, n, tag, past)
    IN  IF r \in 0..(TextureCapacity - 1) THEN {}
        ELSE IF r = -1 THEN TextureCapacity..(n - 1)
        ELSE TextureCapacity..r

---------------------------------------------------------------------------
\* glm matrices.  A factor is one glm call; a mat4 product is kept as the
\* list of its factors in the order they are multiplied.

Translate(v) == [kind |-> "translate", v |-> v, deg |-> 0]

Rotate(deg, axis) == [kind |-> "rotate", v |-> axis, deg |-> deg]

Scale(v) == [kind |-> "scale", v |-> v, deg |-> 0]

AxisX == <<1, 0, 0>>

AxisY == <<0, 1, 0>>

AxisZ == <<0, 0, 1>>

\* cosine and sine of the multiples of 90 degrees
Quarter(deg) == ((deg % 360) + 360) % 360

Cos(deg) ==
    CASE Quarter(deg) = 0 -> 1
      [] Quarter(deg) = 90 -> 0
      [] Quarter(deg) = 180 -> -1
      [] Quarter(deg) = 270 -> 0

Sin(deg) ==
    CASE Quarter(deg) = 0 -> 0
      [] Quarter(deg) = 90 -> 1
      [] Quarter(deg) = 180 -> 0
      [] Quarter(deg) = 270 -> -1

\* the 4x4 matrix of a factor, rows of columns, as glm builds it
Matrix(f) ==
    LET c == Cos(f.deg)
        s == Sin(f.deg)
    IN  CASE f.kind = "translate" ->
               << <<1, 0, 0, f.v[1]>>, <<0, 1, 0, f.v[2]>>,
                  <<0, 0, 1, f.v[3]>>, <<0, 0, 0, 1>> >>
          [] f.kind = "scale" ->
               << <<f.v[1], 0, 0, 0>>, <<0, f.v[2], 0, 0>>,
                  <<0, 0, f.v[3], 0>>, <<0, 0, 0, 1>> >>
          [] f.kind = "rotate" /\ f.v = AxisX ->
               << <<1, 0, 0, 0>>, <<0, c, -s, 0>>,
                  <<0, s, c, 0>>, <<0, 0, 0, 1>> >>
          [] f.kind = "rotate" /\ f.v = AxisY ->
               << <<c, 0, s, 0>>, <<0, 1, 0, 0>>,
                  <<-s, 0, c, 0>>, <<0, 0, 0, 1>> >>
          [] f.kind = "rotate" /\ f.v = AxisZ ->
               << <<c, -s, 0, 0>>, <<s, c, 0, 0>>,
                  <<0, 0, 1, 0>>, <<0, 0, 0, 1>> >>

Identity4 ==
    << <<1, 0, 0, 0>>, <<0, 1, 0, 0>>, <<0, 0, 1, 0>>, <<0, 0, 0, 1>> >>

\* operator* of two mat4
MatMul(a, b) ==
    [i \in 1..4 |->
        [j \in 1..4 |->
            a[i][1] * b[1][j] + a[i][2] * b[2][j]
            + a[i][3] * b[3][j] + a[i][4] * b[4][j]]]

\* the value of a product, multiplied out left to right
RECURSIVE MatValueFrom(_, _, _)
MatValueFrom(factors, acc, k) ==
    IF k > Len(factors) THEN acc
    ELSE MatValueFrom(factors, MatMul(acc, Matrix(factors[k])), k + 1)

MatValue(factors) == MatValueFrom(factors, Identity4, 1)

\* mat4 * vec4(v, 1), the xyz of the result
Transform(m, v) ==
    [i \in 1..3 |-> m[i][1] * v[1] + m[i][2] * v[2] + m[i][3] * v[3] + m[i][4]]

---------------------------------------------------------------------------
\* The shader setters

\* the factors multiplied in the opposite order
ModelMatrixScaleFirst(scaleXYZ, XrotationDegrees, YrotationDegrees, ZrotationDegrees, positionXYZ) ==
    << Scale(scaleXYZ),
       Rotate(XrotationDegrees, AxisX),
       Rotate(YrotationDegrees, AxisY),
       Rotate(ZrotationDegrees, AxisZ),
       Translate(positionXYZ) >>

\* the model matrix SetTransformations builds
ModelMatrix(scaleXYZ, XrotationDegrees, YrotationDegrees, ZrotationDegrees, positionXYZ) ==
    << Translate(positionXYZ),
       Rotate(ZrotationDegrees, AxisZ),
       Rotate(YrotationDegrees, AxisY),
       Rotate(XrotationDegrees, AxisX),
       Scale(scaleXYZ) >>

SetTransformations(s, scaleXYZ, XrotationDegrees, YrotationDegrees, ZrotationDegrees, positionXYZ) ==
    LET model == ModelMatrix(scaleXYZ, XrotationDegrees, YrotationDegrees,
                             ZrotationDegrees, positionXYZ)
        s0 == Log(s, "SetTransformations", <<>>)
    IN  IF s0.shader
        THEN [Log(s0, "setMat4Value", <<"model", model>>)
                 EXCEPT !.uni.model = model]
        ELSE s0

\* the sampler value SetShaderTexture passes on
SamplerSlot(ids, n, tag, past) == FindTextureSlot(ids, n, tag, past)

SetShaderTexture(s, tag, scale, past) ==
    LET s0 == Log(s, "SetShaderTexture", <<tag>>)
    IN  IF s0.shader
        THEN
            LET slot == SamplerSlot(s0.ids, s0.n, tag, past)
                s1 == Log(s0, "setIntValue", <<"bUseTexture", 1>>)
                s2 == Log(s1, "setSampler2DValue", <<"objectTexture", slot>>)
                s3 == Log(s2, "setVec2Value", <<"UVscale", <<scale, scale>> >>)
            IN  [s3 EXCEPT !.uni.bUseTexture = 1,
                           !.uni.objectTexture = slot,
                           !.uni.UVscale = <<scale, scale>>,
                           !.oob = @ \cup FindReadsPast(s0.ids, s0.n, tag, past)]
        ELSE s0

\* declared in SceneManager.h ("set the UV scale uniform for tiling
\* textures"); its body is not part of the sources
SetTextureUVScale(s, u, v) ==
    LET s0 == Log(s, "SetTextureUVScale", <<u, v>>)
    IN  IF s0.shader
        THEN [s0 EXCEPT !.uni.UVscale = <<u, v>>]
        ELSE s0

\* SetupSceneLights uses m_pShaderManager unchecked: with a null pointer the
\* calls are undefined behaviour, recorded as the access "null"
SetupSceneLights(s) ==
    LET s0 == Log(s, "SetupSceneLights", <<>>)
    IN  IF s0.shader
        THEN [Log(s0, "setBoolValue", <<"bUseLighting", TRUE>>)
                 EXCEPT !.uni.bUseLighting = TRUE]
        ELSE [s0 EXCEPT !.nullDeref = TRUE]

---------------------------------------------------------------------------
\* The scene

RECURSIVE LoadFrom(_, _, _)
LoadFrom(s, d, k) ==
    IF k > Len(SceneTextures) THEN s
    ELSE LoadFrom(CreateGLTexture(s, SceneTextures[k][1], SceneTextures[k][2],
                                  d[SceneTextures[k][1]]),
                  d, k + 1)

\* the six CreateGLTexture calls, their results ignored, then BindGLTextures
LoadSceneTextures(s, d) ==
    [BindGLTextures(LoadFrom(Log(s, "LoadSceneTextures", <<>>), d, 1))
        EXCEPT !.ret = "void"]

PrepareScene(s, d) ==
    LET s0 == LoadSceneTextures(s, d)
        s1 == Log(s0, "LoadPlaneMesh", <<>>)
        s2 == Log(s1, "LoadBoxMesh", <<>>)
        s3 == Log(s2, "LoadCylinderMesh", <<>>)
    IN  SetupSceneLights(s3)

\* One draw of RenderScene.  Lengths and UV scales are the source's float
\* literals in hundredths, angles are in degrees; uv tells whether
\* SetTextureUVScale(1.0f, 1.0f) follows SetShaderTexture.
Draw(scale, rx, ry, rz, position, tag, uvscale, uv, mesh) ==
    [scale |-> scale, rx |-> rx, ry |-> ry, rz |-> rz, position |-> position,
     tag |-> tag, uvscale |-> uvscale, uv |-> uv, mesh |-> mesh]

\* the draws of RenderScene, in order
SceneDraws ==
    << Draw(<<5000, 100, 5000>>, 0, 0, 0, <<0, -50, 0>>,
            "wood", 1000, FALSE, "DrawPlaneMesh"),
       Draw(<<1000, 400, 400>>, 0, 0, 0, <<0, 200, 0>>,
            "whiteWood", 200, FALSE, "DrawBoxMesh"),
       Draw(<<1100, 30, 500>>, 0, 0, 0, <<0, 430, 0>>,
            "concrete", 200, FALSE, "DrawBoxMesh"),
       Draw(<<105, 6, 70>>, 0, 16, 0, <<-140, 249, -45>>,
            "black", 100, TRUE, "DrawBoxMesh"),
       Draw(<<105, 75, 6>>, -90, 16, 0, <<-140, 287, -5>>,
            "black", 100, FALSE, "DrawBoxMesh"),
       Draw(<<13, 45, 13>>, 0, 0, 0, <<0, 257, -17>>,
            "gray", 100, TRUE, "DrawCylinderMesh"),
       Draw(<<15, 4, 15>>, 0, 0, 0, <<0, 281, -17>>,
            "black", 100, FALSE, "DrawCylinderMesh"),
       Draw(<<70, 110, 35>>, 0, -13, 0, <<150, 292, 70>>,
            "green", 100, TRUE, "DrawBoxMesh") >>

\* a draw issued before its texture is set
DrawOneBeforeTexture(s, dr, past) ==
    LET s0 == SetTransformations(s, dr.scale, dr.rx, dr.ry, dr.rz, dr.position)
        s1 == Log(s0, dr.mesh, <<>>)
        s2 == SetShaderTexture(s1, dr.tag, dr.uvscale, past)
    IN  IF dr.uv THEN SetTextureUVScale(s2, 100, 100) ELSE s2

\* SetTransformations, SetShaderTexture, SetTextureUVScale where the source
\* calls it, and the draw
DrawOne(s, dr, past) ==
    LET s0 == SetTransformations(s, dr.scale, dr.rx, dr.ry, dr.rz, dr.position)
        s1 == SetShaderTexture(s0, dr.tag, dr.uvscale, past)
        s2 == IF dr.uv THEN SetTextureUVScale(s1, 100, 100) ELSE s1
    IN  Log(s2, dr.mesh, <<>>)

RECURSIVE RenderFrom(_, _, _)
RenderFrom(s, past, k) ==
    IF k > Len(SceneDraws) THEN s
    ELSE RenderFrom(DrawOne(s, SceneDraws[k], past), past, k + 1)

RenderScene(s, past) == RenderFrom(s, past, 1)

---------------------------------------------------------------------------
\* The state machine: one action per method of SceneManager

\* the object as a handler finds it
Obj ==
    [shader |-> m_pShaderManager, n |-> m_loadedTextures, ids |-> m_textureIDs,
     next |-> glNext, uni |-> uniforms, calls |-> <<>>, wrote |-> {},
     oob |-> {}, nullDeref |-> FALSE, ret |-> "void"]

\* the state a handler leaves; after undefined behaviour the process may be dead
Commit(s, name, args) ==
    /\ m_loadedTextures' = s.n
    /\ m_textureIDs' = s.ids
    /\ glNext' = s.next
    /\ uniforms' = s.uni
    /\ calls' = s.calls
    /\ ret' = s.ret
    /\ wrote' = s.wrote
    /\ oob' = s.oob
    /\ op' = <<name>> \o args
    /\ alive' \in (IF s.oob # {} \/ s.nullDeref THEN {"alive", "crashed"} ELSE {"alive"})
    /\ UNCHANGED <<m_pShaderManager, disk>>

\* SceneManager::SceneManager
Constructed(shader, d) ==
    /\ m_pShaderManager = shader
    /\ m_loadedTextures = 0
    /\ m_textureIDs = EmptyRegistry
    /\ disk = d
    /\ glNext = 1
    /\ uniforms = NoUniforms
    /\ calls = <<>>
    /\ ret = "void"
    /\ wrote = {}
    /\ oob = {}
    /\ op = <<"SceneManager">>
    /\ alive = "alive"
    /\ prepares = 0
    /\ creates = 0

\* bool CreateGLTexture(const char* filename, std::string tag), called directly
DoCreateGLTexture ==
    /\ alive = "alive"
    /\ creates < MaxCreate
    /\ \E k \in 1..Len(SceneTextures), tag \in CreateTags :
          Commit(CreateGLTexture(Obj, SceneTextures[k][1], tag, disk[SceneTextures[k][1]]),
                 "CreateGLTexture", <<SceneTextures[k][1], tag>>)
    /\ creates' = creates + 1
    /\ UNCHANGED prepares

DoBindGLTextures ==
    /\ alive = "alive"
    /\ Commit(BindGLTextures(Obj), "BindGLTextures", <<>>)
    /\ UNCHANGED <<prepares, creates>>

DoDestroyGLTextures ==
    /\ alive = "alive"
    /\ Commit(DestroyGLTextures(Obj), "DestroyGLTextures", <<>>)
    /\ UNCHANGED <<prepares, creates>>

DoFindTextureSlot ==
    /\ alive = "alive"
    /\ \E tag \in LookupTags, past \in PastReads(m_loadedTextures) :
          Commit([Obj EXCEPT
                     !.ret = FindTextureSlot(m_textureIDs, m_loadedTextures, tag, past),
                     !.oob = FindReadsPast(m_textureIDs, m_loadedTextures, tag, past)],
                 "FindTextureSlot", <<tag>>)
    /\ UNCHANGED <<prepares, creates>>

DoSetShaderTexture ==
    /\ alive = "alive"
    /\ \E tag \in LookupTags, past \in PastReads(m_loadedTextures) :
          Commit(SetShaderTexture(Obj, tag, 100, past), "SetShaderTexture", <<tag>>)
    /\ UNCHANGED <<prepares, creates>>

DoSetTransformations ==
    /\ alive = "alive"
    /\ \E sc \in ScaleInputs, rx \in AngleInputs, ry \in AngleInputs,
          rz \in AngleInputs, pos \in PositionInputs :
          Commit(SetTransformations(Obj, sc, rx, ry, rz, pos),
                 "SetTransformations", <<sc, rx, ry, rz, pos>>)
    /\ UNCHANGED <<prepares, creates>>

\* LoadSceneTextures, called by the class at any time
DoLoadSceneTextures ==
    /\ alive = "alive"
    /\ prepares < MaxPrepare
    /\ Commit(LoadSceneTextures(Obj, disk), "LoadSceneTextures", <<>>)
    /\ prepares' = prepares + 1
    /\ UNCHANGED creates

\* LoadSceneTextures on the object as constructed
FirstLoadSceneTextures ==
    /\ prepares = 0
    /\ DoLoadSceneTextures

\* PrepareScene: "called once at startup"
DoPrepareScene ==
    /\ alive = "alive"
    /\ prepares = 0
    /\ Commit(PrepareScene(Obj, disk), "PrepareScene", <<>>)
    /\ prepares' = prepares + 1
    /\ UNCHANGED creates

\* RenderScene: "called each frame", after PrepareScene
DoRenderScene ==
    /\ alive = "alive"
    /\ op[1] \in {"PrepareScene", "RenderScene"}
    /\ \E past \in PastReads(m_loadedTextures) :
          Commit(RenderScene(Obj, past), "RenderScene", <<>>)
    /\ UNCHANGED <<prepares, creates>>

\* SceneManager::~SceneManager
Destructor ==
    /\ alive = "alive"
    /\ LET s == DestroyGLTextures(Obj)
       IN  /\ m_loadedTextures' = s.n
           /\ m_textureIDs' = s.ids
           /\ glNext' = s.next
           /\ uniforms' = s.uni
           /\ calls' = s.calls
           /\ ret' = s.ret
           /\ wrote' = s.wrote
           /\ oob' = s.oob
           /\ op' = <<"~SceneManager">>
           /\ alive' \in (IF s.oob # {} THEN {"destroyed", "crashed"} ELSE {"destroyed"})
    /\ m_pShaderManager' = FALSE
    /\ UNCHANGED <<disk, prepares, creates>>

\* The program: construction, startup, the frames, destruction
Init == \E shader \in BOOLEAN, d \in Disks : Constructed(shader, d)

Next ==
    \/ DoPrepareScene
    \/ FirstLoadSceneTextures
    \/ DoRenderScene
    \/ Destructor

Spec == Init /\ [][Next]_vars

\* The registry helpers, called in any order
InitRegistry == \E shader \in BOOLEAN, d \in RegistryDisks : Constructed(shader, d)

NextRegistry ==
    \/ DoCreateGLTexture
    \/ DoLoadSceneTextures
    \/ DoBindGLTextures
    \/ DoDestroyGLTextures
    \/ DoFindTextureSlot

SpecRegistry == InitRegistry /\ [][NextRegistry]_vars

\* The shader setters, called before and after the textures are loaded
InitSetters == \E shader \in BOOLEAN, d \in SetterDisks : Constructed(shader, d)

NextSetters ==
    \/ FirstLoadSceneTextures
    \/ DoSetShaderTexture
    \/ DoSetTransformations

SpecSetters == InitSetters /\ [][NextSetters]_vars

---------------------------------------------------------------------------
\* Properties

\* C1: the registry holds at most 16 entries: in every reachable state
\* 0 <= m_loadedTextures <= 16, and every index CreateGLTexture stored an
\* entry at is in 0..15.
C1_RegistryWithinCapacity ==
    /\ m_loadedTextures \in 0..TextureCapacity
    /\ wrote \subseteq 0..(TextureCapacity - 1)

\* the loaded entries of the array that carry the tag
Matching(ids, n, tag) ==
    {i \in (0..(n - 1)) \cap DOMAIN ids : ids[i].tag = tag}

Lowest(S) == CHOOSE i \in S : \A j \in S : i <= j

\* C2: FindTextureSlot(tag) returns the lowest index i in 0..m_loadedTextures-1
\* (hence within 0..15) whose entry carries the tag, returns -1 exactly when
\* no loaded entry carries it, and leaves the registry as it was.
C2_FindTextureSlotLowestMatch ==
    [][op'[1] = "FindTextureSlot" =>
        LET found == Matching(m_textureIDs, m_loadedTextures, op'[2])
        IN  /\ ret' \in -1..(TextureCapacity - 1)
            /\ found # {} => ret' = Lowest(found)
            /\ found = {} => ret' = -1
            /\ m_textureIDs' = m_textureIDs
            /\ m_loadedTextures' = m_loadedTextures]_vars

\* C3: CreateGLTexture returns true exactly when it registers the texture:
\* with 3 or 4 channels it returns true, stores (new texture ID, tag) at the
\* old m_loadedTextures, adds 1 to m_loadedTextures and leaves every other
\* entry alone; otherwise it returns false and the registry is unchanged.
C3_CreateRegistersExactlyWhenTrue ==
    [][op'[1] = "CreateGLTexture" =>
        IF disk[op'[2]] \in {3, 4}
        THEN /\ ret' = TRUE
             /\ m_loadedTextures \in DOMAIN m_textureIDs'
             /\ m_textureIDs'[m_loadedTextures] = TextureInfo(op'[3], glNext)
             /\ m_loadedTextures' = m_loadedTextures + 1
             /\ \A j \in DOMAIN m_textureIDs \ {m_loadedTextures} :
                   m_textureIDs'[j] = m_textureIDs[j]
        ELSE /\ ret' = FALSE
             /\ m_loadedTextures' = m_loadedTextures
             /\ m_textureIDs' = m_textureIDs]_vars

\* C4: every SetShaderTexture(tag) that RenderScene makes after PrepareScene
\* with a shader manager sets bUseTexture and passes as the objectTexture
\* sampler an index s with 0 <= s < m_loadedTextures whose entry carries the
\* tag (never -1).
C4_SamplerIsSlotOfTag ==
    (op[1] = "RenderScene" /\ m_pShaderManager) =>
        \A k \in 1..Len(calls) :
            calls[k].fn = "setSampler2DValue" =>
                /\ calls[k - 2].fn = "SetShaderTexture"
                /\ calls[k - 1] = Call("setIntValue", <<"bUseTexture", 1>>)
                /\ calls[k].arg[2] \in Matching(m_textureIDs, m_loadedTextures,
                                                calls[k - 2].arg[1])

\* LoadSceneTextures runs on the registry as the constructor left it
FreshLoad ==
    /\ op'[1] = "LoadSceneTextures"
    /\ op = <<"SceneManager">>
    /\ m_loadedTextures = 0
    /\ m_textureIDs = EmptyRegistry

\* C5 as stated: from the empty registry, after LoadSceneTextures returns
\* m_loadedTextures = 6 and slots 0..5 carry wood, whiteWood, concrete,
\* green, gray, black.
C5_SixTexturesLoaded ==
    [][FreshLoad =>
        /\ m_loadedTextures' = 6
        /\ m_textureIDs'[0].tag = "wood"
        /\ m_textureIDs'[1].tag = "whiteWood"
        /\ m_textureIDs'[2].tag = "concrete"
        /\ m_textureIDs'[3].tag = "green"
        /\ m_textureIDs'[4].tag = "gray"
        /\ m_textureIDs'[5].tag = "black"]_vars

\* the scene's textures whose file loads with 3 or 4 channels, in order
Loadable(d) == SelectSeq(SceneTextures, LAMBDA p : d[p[1]] \in {3, 4})

\* C5 amended: from the empty registry, after LoadSceneTextures returns
\* m_loadedTextures is the number k of the six files that load with 3 or 4
\* channels, slots 0..k-1 carry their tags in the order wood, whiteWood,
\* concrete, green, gray, black, and the slots from k on are still empty; with
\* all six loadable that is 6 and the six tags in order.
C5_LoadedTexturesInOrder ==
    [][FreshLoad =>
        LET good == Loadable(disk)
        IN  /\ m_loadedTextures' = Len(good)
            /\ \A i \in 1..Len(good) : m_textureIDs'[i - 1].tag = good[i][2]
            /\ \A i \in Len(good)..(TextureCapacity - 1) :
                  m_textureIDs'[i] = TextureInfo(NoTag, NoTextureID)
            /\ Len(good) = 6 =>
                  /\ m_loadedTextures' = 6
                  /\ [i \in 0..5 |-> m_textureIDs'[i].tag] =
                        [i \in 0..5 |-> SceneTextures[i + 1][2]]]_vars

\* C5 witness: a load that skipped textures/green.png
C5_Witness ==
    /\ op = <<"LoadSceneTextures">>
    /\ prepares = 1
    /\ m_loadedTextures = 5
    /\ m_textureIDs[3].tag = "gray"
    /\ disk["textures/green.png"] = 0

\* the calls of a frame the claim is about: the two setters and the draws
FrameCalls(c) ==
    SelectSeq(c, LAMBDA e : e.fn \in {"SetTransformations", "SetShaderTexture",
                                      "DrawPlaneMesh", "DrawBoxMesh", "DrawCylinderMesh"})

ExpectedMeshes ==
    <<"DrawPlaneMesh", "DrawBoxMesh", "DrawBoxMesh", "DrawBoxMesh", "DrawBoxMesh",
      "DrawCylinderMesh", "DrawCylinderMesh", "DrawBoxMesh">>

ExpectedTags ==
    <<"wood", "whiteWood", "concrete", "black", "black", "gray", "black", "green">>

\* C6: every RenderScene issues exactly eight draws, plane, box, box, box,
\* box, cylinder, cylinder, box; since the previous draw each is preceded by
\* one SetTransformations and then one SetShaderTexture, with the tags wood,
\* whiteWood, concrete, black, black, gray, black, green; the registry is left
\* unchanged, and a frame that follows a frame issues the same calls.
C6_RenderSceneFixedDraws ==
    [][op'[1] = "RenderScene" =>
        LET frame == FrameCalls(calls')
        IN  /\ Len(frame) = 24
            /\ \A k \in 1..8 :
                  /\ frame[3 * k - 2].fn = "SetTransformations"
                  /\ frame[3 * k - 1].fn = "SetShaderTexture"
                  /\ frame[3 * k - 1].arg = <<ExpectedTags[k]>>
                  /\ frame[3 * k].fn = ExpectedMeshes[k]
            /\ m_loadedTextures' = m_loadedTextures
            /\ m_textureIDs' = m_textureIDs
            /\ op[1] = "RenderScene" => calls' = calls]_vars

\* C6 witness: a frame drawn with a shader manager and all six textures loaded
C6_Witness ==
    /\ op = <<"RenderScene">>
    /\ alive = "alive"
    /\ m_pShaderManager
    /\ m_loadedTextures = 6
    /\ uniforms.objectTexture = 3
    /\ Len(calls) > 24

\* the transformations of a vertex, one at a time
ScaleVec(sc, v) == <<sc[1] * v[1], sc[2] * v[2], sc[3] * v[3]>>

RotXVec(deg, v) ==
    <<v[1], Cos(deg) * v[2] - Sin(deg) * v[3], Sin(deg) * v[2] + Cos(deg) * v[3]>>

RotYVec(deg, v) ==
    <<Cos(deg) * v[1] + Sin(deg) * v[3], v[2], Cos(deg) * v[3] - Sin(deg) * v[1]>>

RotZVec(deg, v) ==
    <<Cos(deg) * v[1] - Sin(deg) * v[2], Sin(deg) * v[1] + Cos(deg) * v[2], v[3]>>

TranslateVec(p, v) == <<v[1] + p[1], v[2] + p[2], v[3] + p[3]>>

\* the vertices the model matrix is tried on
Probes == {<<1, 0, 0>>, <<0, 1, 0>>, <<0, 0, 1>>, <<0, 0, 0>>, <<1, 2, 3>>}

AsTuple(f) == <<f[1], f[2], f[3]>>

\* C7: SetTransformations uploads to "model", exactly once with a shader
\* manager and not at all without one, the product translate(position) *
\* rotateZ * rotateY * rotateX * scale(scaleXYZ), which takes a vertex through
\* scale, X rotation, Y rotation, Z rotation and translation in that order;
\* with all three angles 0 it is translate(position) * scale(scaleXYZ).
C7_ModelMatrixComposition ==
    op[1] = "SetTransformations" =>
        LET uploads == SelectSeq(calls, LAMBDA e : e.fn = "setMat4Value")
            sc == op[2]
            rx == op[3]
            ry == op[4]
            rz == op[5]
            pos == op[6]
        IN  IF m_pShaderManager
            THEN /\ Len(uploads) = 1
                 /\ uploads[1].arg[1] = "model"
                 /\ uniforms.model = uploads[1].arg[2]
                 /\ LET model == MatValue(uploads[1].arg[2])
                    IN  /\ model =
                              MatMul(Matrix(Translate(pos)),
                                MatMul(Matrix(Rotate(rz, AxisZ)),
                                  MatMul(Matrix(Rotate(ry, AxisY)),
                                    MatMul(Matrix(Rotate(rx, AxisX)),
                                           Matrix(Scale(sc))))))
                        /\ \A v \in Probes :
                              AsTuple(Transform(model, v)) =
                                  TranslateVec(pos,
                                    RotZVec(rz, RotYVec(ry, RotXVec(rx, ScaleVec(sc, v)))))
                        /\ (rx = 0 /\ ry = 0 /\ rz = 0) =>
                              model = MatMul(Matrix(Translate(pos)), Matrix(Scale(sc)))
            ELSE Len(uploads) = 0

\* C7 witness: three different quarter turns, a scale and a translation, uploaded
C7_Witness ==
    /\ op = <<"SetTransformations", <<2, 3, 5>>, 90, -90, 90, <<7, -11, 13>> >>
    /\ m_pShaderManager
    /\ Len(uniforms.model) = 5

====
